---------------------------- MODULE Spec2Model ----------------------------
(***************************************************************************)
(* A model of alkuzin/readelf (Rust): the ELF32 bit-packed info codecs     *)
(* (src/elf/symtbl.rs, src/elf/reloc.rs), the header decode and label      *)
(* getters (src/main.rs, src/parser.rs) and the section predicates         *)
(* (src/elf/sechdr.rs).                                                    *)
(*                                                                         *)
(* Number representation.  u8 and u16 values are naturals.  TLC's integers *)
(* are 32-bit signed, so a u32 is a record [hi, lo] of two 16-bit limbs    *)
(* whose value is hi * 65536 + lo; U32(hi, lo) builds one and u32(n) lifts *)
(* a natural below 2^31.  An optional value is a sequence: << >> is        *)
(* "absent" and <<v>> is "present".                                        *)
(***************************************************************************)
EXTENDS Integers, Sequences, FiniteSets, TLC

VARIABLES
    \* ---- bitfield codec harness (symtbl.rs, reloc.rs)
    cpc,      \* "args" | "info" | "fields" | "done"
    carg,     \* <<a, b>>: the arguments handed to the pack function; << >> when
              \* the info value was read from a record instead of packed
    cinfo,    \* << >> or <<info>>: the packed info byte / word
    cfld,     \* << >> or <<x, y>>: what the two unpack functions returned
    cre,      \* << >> or <<info>>: the info packed again from cfld
    cpanic,   \* TRUE when an arithmetic check of the build aborted the call
    \* ---- the program: main (main.rs) and ElfParser (parser.rs)
    buf,      \* BYTES, the embedded image: [data |-> its leading bytes,
              \* zeros |-> the number of zero bytes that follow them]
    host,     \* byte order of the machine the build runs on: "little" | "big"
    pc,       \* "start" | "done"
    parser,   \* << >> or <<p>>: the ElfParser main constructed, p = [hdr |-> ...]
    out,      \* the lines print_header wrote, in order
    result,   \* how the process ended: "" (running) | "exit0"
    nread,    \* number of bytes main read from BYTES, starting at offset 0
    \* ---- section predicate harness (sechdr.rs)
    spc,      \* "args" | "done"
    sec,      \* the Elf32_Shdr handed to the predicates
    sname,    \* the section name handed to the predicates
    cls,      \* << >> or <<r>>: r[i] is what predicate PredNames[i] returned
    sprev,    \* << >> or <<[name, cls]>>: the name and the results before a rename
    \* ---- ElfParser method harness (parser.rs)
    ppc,      \* "new" | "calls"
    phdr,     \* the Elf32_Ehdr handed to ElfParser::new
    pself,    \* << >> or <<p>>: the ElfParser that ElfParser::new returned
    pseen,    \* pseen[m] is << >>, or <<v>> with v what method m returned the
              \* first time it was called (for print_header: the lines printed)
    pret,     \* << >> or <<[fn, val]>>: the last call and what it returned
    pn,       \* number of method calls made so far
    pfail,    \* TRUE when a call aborted
    \* ---- threads calling through shared references (parser.rs, symtbl.rs,
    \* ---- reloc.rs, sechdr.rs)
    tshared,  \* what the threads share: [self |-> the ElfParser, sec |-> an
              \* Elf32_Shdr, name |-> its name, st_info |-> a symbol's info
              \* byte, r_info |-> a relocation's info word]
    tshared0, \* tshared as it was when the threads were started
    tpc,      \* tpc[t]: "idle" | "loop" (inside get_magic's for) | "done"
    tfn,      \* tfn[t]: the function thread t is in or has returned from
    tit,      \* tit[t]: in get_magic, the bytes of the thread's copy of
              \* e_ident that the for loop has not visited yet
    tstr,     \* tstr[b]: the String with identity b that get_magic builds
    tret,     \* tret[t]: << >> or <<v>>, v what the call of thread t returned
    tover     \* tover[t]: TRUE when another thread pushed to its String
              \* while thread t was inside get_magic

cvars == <<cpc, carg, cinfo, cfld, cre, cpanic>>
hvars == <<buf, host, pc, parser, out, result, nread>>
svars == <<spc, sec, sname, cls, sprev>>
pvars == <<ppc, phdr, pself, pseen, pret, pn, pfail>>
tvars == <<tshared, tshared0, tpc, tfn, tit, tstr, tret, tover>>
vars  == <<cvars, hvars, svars, pvars, tvars>>

-----------------------------------------------------------------------------
(* Bounds of the model.                                                    *)

\* Section types 0..MaxShType and flag words 0..MaxShFlags are handed to
\* the section predicates (the named types end at 11, the named flag bits
\* at 4).
MaxShType == 12
MaxShFlags == 8

\* Identification bytes 0..MaxIdent, object file types 0..MaxEType and
\* machines 0..MaxEMachine are handed to the ElfParser methods (the named
\* codes end at 2, 4 and 8), which are called up to MaxCalls times on one
\* parser.
MaxIdent == 3
MaxEType == 5
MaxEMachine == 9
MaxCalls == 2

\* Sampled 16-bit limbs and sampled bytes lie within SampleSpan of a power
\* of two (the places where a shift or a mask changes what it keeps).
SampleSpan == 1

\* Number of threads that share the parser, the section and the records.
NumThreads == 2

-----------------------------------------------------------------------------
(* Machine arithmetic.                                                     *)

U8  == 0..255
U16 == 0..65535

RECURSIVE BitAnd(_, _)
\* a & b on naturals, bit by bit.
BitAnd(a, b) ==
    IF a = 0 \/ b = 0 THEN 0
    ELSE ((a % 2) * (b % 2)) + 2 * BitAnd(a \div 2, b \div 2)

RECURSIVE BitOr(_, _)
\* a | b on naturals, bit by bit.
BitOr(a, b) ==
    IF a = 0 THEN b
    ELSE IF b = 0 THEN a
    ELSE (IF a % 2 = 1 \/ b % 2 = 1 THEN 1 ELSE 0) + 2 * BitOr(a \div 2, b \div 2)

\* x << n on a u8: the bits shifted past bit 7 are dropped.
ShlU8(x, n) == (x * (2 ^ n)) % 256

\* x >> n on an unsigned value.
ShrU8(x, n) == x \div (2 ^ n)

\* Rust aborts a shift (debug build) only when the shift amount is not
\* below the bit width of the shifted type; lost bits are never an error.
ShiftPanics(n, width) == n >= width

U32(h, l) == [hi |-> h, lo |-> l]

u32(n) == [hi |-> n \div 65536, lo |-> n % 65536]

IsU32(w) == w.hi \in U16 /\ w.lo \in U16

\* w << n on a u32, 0 <= n < 32.
ShlU32(w, n) ==
    IF n < 16
    THEN [hi |-> ((w.hi * (2 ^ n)) % 65536) + ((w.lo * (2 ^ n)) \div 65536),
          lo |-> (w.lo * (2 ^ n)) % 65536]
    ELSE [hi |-> (w.lo * (2 ^ (n - 16))) % 65536, lo |-> 0]

\* w >> n on a u32, 0 <= n < 32.
ShrU32(w, n) ==
    IF n < 16
    THEN [hi |-> w.hi \div (2 ^ n),
          lo |-> ((w.hi % (2 ^ n)) * (2 ^ (16 - n))) + (w.lo \div (2 ^ n))]
    ELSE [hi |-> 0, lo |-> w.hi \div (2 ^ (n - 16))]

AndU32(a, b) == [hi |-> BitAnd(a.hi, b.hi), lo |-> BitAnd(a.lo, b.lo)]

OrU32(a, b) == [hi |-> BitOr(a.hi, b.hi), lo |-> BitOr(a.lo, b.lo)]

\* `x as u32` of a u8 or u16: zero extension.
AsU32(x) == [hi |-> 0, lo |-> x]

\* `w as u8` of a u32: the low eight bits.
AsU8(w) == w.lo % 256

-----------------------------------------------------------------------------
(* Symbol info codec: src/elf/symtbl.rs.                                   *)

\* A shift by one bit too few, as a slip in the shift constant would give.
elf32_st_bind_shr3(info) == ShrU8(info, 3)

\* pub fn elf32_st_bind(info: u8) -> u8 { info >> 4 }
elf32_st_bind(info) == ShrU8(info, 4)

\* A mask one bit too narrow.
elf32_st_type_mask7(info) == BitAnd(info, 7)

\* pub fn elf32_st_type(info: u8) -> u8 { info & 0xf }
elf32_st_type(info) == BitAnd(info, 15)

\* The pack without the mask on typ.
elf32_st_info_nomask(bind, typ) == BitOr(ShlU8(bind, 4), typ)

\* The pack with the two arguments exchanged.
elf32_st_info_swapped(bind, typ) == BitOr(ShlU8(typ, 4), BitAnd(bind, 15))

\* pub fn elf32_st_info(bind: u8, typ: u8) -> u8 { (bind << 4) | (typ & 0xf) }
elf32_st_info(bind, typ) == BitOr(ShlU8(bind, 4), BitAnd(typ, 15))

\* Whether the call elf32_st_info(bind, typ) aborts: its only checked
\* operation is the shift by the constant 4 on a u8.
elf32_st_info_panics(bind, typ) == ShiftPanics(4, 8)

-----------------------------------------------------------------------------
(* Relocation info codec: src/elf/reloc.rs.                                *)

\* The symbol index cut to 16 bits.
elf32_r_sym_low16(info) == AndU32(ShrU32(info, 8), u32(65535))

\* pub fn elf32_r_sym(info: u32) -> u32 { info >> 8 }
elf32_r_sym(info) == ShrU32(info, 8)

\* A mask one bit too narrow.
elf32_r_type_mask7f(info) == AsU8(AndU32(info, u32(127)))

\* pub fn elf32_r_type(info: u32) -> u8 { (info & 0xff) as u8 }
elf32_r_type(info) == AsU8(AndU32(info, u32(255)))

\* The pack with a symbol index masked to 16 bits.
elf32_r_info_sym16(sym, typ) == OrU32(ShlU32(AndU32(sym, u32(65535)), 8), AsU32(typ))

\* The pack with the shift of the symbol-table codec.
elf32_r_info_shl4(sym, typ) == OrU32(ShlU32(sym, 4), AsU32(typ))

\* pub fn elf32_r_info(sym: u32, typ: u8) -> u32 { (sym << 8) | (typ as u32) }
elf32_r_info(sym, typ) == OrU32(ShlU32(sym, 8), AsU32(typ))

\* Whether the call elf32_r_info(sym, typ) aborts: its only checked
\* operation is the shift by the constant 8 on a u32.
elf32_r_info_panics(sym, typ) == ShiftPanics(8, 32)

-----------------------------------------------------------------------------
(* ELF header: src/elf/mod.rs, src/elf/elfhdr.rs.                          *)

\* Sizes in bytes of the ELF32 scalar types (u32, u16, u32, u32).
SizeOfAddr == 4
SizeOfHalf == 2
SizeOfOff  == 4
SizeOfWord == 4
SizeOfSword == 4
SizeOfU8 == 1

ET_NONE   == 0
ET_REL    == 1
ET_EXEC   == 2
ET_DYN    == 3
ET_CORE   == 4
ET_LOPROC == 65280
ET_HIPROC == 65535

EM_NONE  == 0
EM_M32   == 1
EM_SPARC == 2
EM_386   == 3
EM_68K   == 4
EM_88K   == 5
EM_860   == 7
EM_MIPS  == 8

\* [0x7f, b'E', b'L', b'F']
ELF_MAGIC == <<127, 69, 76, 70>>

EI_CLASS     == 4
ELFCLASSNONE == 0
ELFCLASS32   == 1
ELFCLASS64   == 2

EI_DATA     == 5
ELFDATANONE == 0
ELFDATA2LSB == 1
ELFDATA2MSB == 2

EI_VERSION == 6
EV_NONE    == 0
EV_CURRENT == 1

EI_NIDENT == 16

\* Elf32_Ehdr with e_type declared as an Elf32_Word.
Elf32_Ehdr_layout_typeword ==
    << <<"e_ident", EI_NIDENT>>,
       <<"e_type", SizeOfWord>>,
       <<"e_machine", SizeOfHalf>>,
       <<"e_version", SizeOfWord>>,
       <<"e_entry", SizeOfAddr>>,
       <<"e_phoff", SizeOfOff>>,
       <<"e_shoff", SizeOfOff>>,
       <<"e_flags", SizeOfWord>>,
       <<"e_ehsize", SizeOfHalf>>,
       <<"e_phentsize", SizeOfHalf>>,
       <<"e_phnum", SizeOfHalf>>,
       <<"e_shentsize", SizeOfHalf>>,
       <<"e_shnum", SizeOfHalf>>,
       <<"e_shstrndx", SizeOfHalf>> >>

\* #[repr(C, packed)] struct Elf32_Ehdr: the fields in declaration order,
\* each with its size in bytes.
Elf32_Ehdr_layout ==
    << <<"e_ident", EI_NIDENT>>,
       <<"e_type", SizeOfHalf>>,
       <<"e_machine", SizeOfHalf>>,
       <<"e_version", SizeOfWord>>,
       <<"e_entry", SizeOfAddr>>,
       <<"e_phoff", SizeOfOff>>,
       <<"e_shoff", SizeOfOff>>,
       <<"e_flags", SizeOfWord>>,
       <<"e_ehsize", SizeOfHalf>>,
       <<"e_phentsize", SizeOfHalf>>,
       <<"e_phnum", SizeOfHalf>>,
       <<"e_shentsize", SizeOfHalf>>,
       <<"e_shnum", SizeOfHalf>>,
       <<"e_shstrndx", SizeOfHalf>> >>

RECURSIVE SumWidths(_, _)
\* Total size of the first n fields of a layout.
SumWidths(layout, n) ==
    IF n = 0 THEN 0 ELSE layout[n][2] + SumWidths(layout, n - 1)

\* repr(C, packed): alignment 1, so a struct is its fields back to back.
SizeOf(layout) == SumWidths(layout, Len(layout))

OffsetOf(layout, name) ==
    SumWidths(layout, (CHOOSE i \in 1..Len(layout) : layout[i][1] = name) - 1)

\* A u16 field of a struct in memory `mem` (a sequence of bytes) at byte
\* offset `off`, as a machine of byte order `order` reads it.
LoadU16(mem, off, order) ==
    IF order = "little"
    THEN mem[off + 1] + (256 * mem[off + 2])
    ELSE (256 * mem[off + 1]) + mem[off + 2]

\* A u32 field, likewise.
LoadU32(mem, off, order) ==
    IF order = "little"
    THEN U32(LoadU16(mem, off + 2, order), LoadU16(mem, off, order))
    ELSE U32(LoadU16(mem, off, order), LoadU16(mem, off + 2, order))

\* The Elf32_Ehdr value held by the SizeOf(Elf32_Ehdr_layout) bytes `mem`.
ReadEhdr(mem, order) ==
    LET L == Elf32_Ehdr_layout IN
    [e_ident     |-> [i \in 1..EI_NIDENT |-> mem[OffsetOf(L, "e_ident") + i]],
     e_type      |-> LoadU16(mem, OffsetOf(L, "e_type"), order),
     e_machine   |-> LoadU16(mem, OffsetOf(L, "e_machine"), order),
     e_version   |-> LoadU32(mem, OffsetOf(L, "e_version"), order),
     e_entry     |-> LoadU32(mem, OffsetOf(L, "e_entry"), order),
     e_phoff     |-> LoadU32(mem, OffsetOf(L, "e_phoff"), order),
     e_shoff     |-> LoadU32(mem, OffsetOf(L, "e_shoff"), order),
     e_flags     |-> LoadU32(mem, OffsetOf(L, "e_flags"), order),
     e_ehsize    |-> LoadU16(mem, OffsetOf(L, "e_ehsize"), order),
     e_phentsize |-> LoadU16(mem, OffsetOf(L, "e_phentsize"), order),
     e_phnum     |-> LoadU16(mem, OffsetOf(L, "e_phnum"), order),
     e_shentsize |-> LoadU16(mem, OffsetOf(L, "e_shentsize"), order),
     e_shnum     |-> LoadU16(mem, OffsetOf(L, "e_shnum"), order),
     e_shstrndx  |-> LoadU16(mem, OffsetOf(L, "e_shstrndx"), order)]

-----------------------------------------------------------------------------
(* ElfParser: src/parser.rs.  `self` is the record [hdr |-> Elf32_Ehdr].   *)
(* A String is a sequence of one-character strings; a &str label is a      *)
(* string.                                                                 *)

\* A constructor that resets the object file type instead of keeping it.
ElfParser_new_notype(hdr) == [hdr |-> [hdr EXCEPT !.e_type = ET_NONE]]

\* pub fn new(hdr: Elf32_Ehdr) -> ElfParser { ElfParser { hdr } }
ElfParser_new(hdr) == [hdr |-> hdr]

HexDigits ==
    <<"0", "1", "2", "3", "4", "5", "6", "7",
      "8", "9", "a", "b", "c", "d", "e", "f">>

\* format!("{:02x} ", i) of a u8.
FormatHexByte(i) == <<HexDigits[(i \div 16) + 1], HexDigits[(i % 16) + 1], " ">>

RECURSIVE get_magic_loop(_, _)
\* The string after the loop body has run for e_ident[1..n].
get_magic_loop(ident, n) ==
    IF n = 0 THEN << >>
    ELSE get_magic_loop(ident, n - 1) \o FormatHexByte(ident[n])

get_magic(self) == get_magic_loop(self.hdr.e_ident, Len(self.hdr.e_ident))

\* Whether the indexing a[i] of an array of len elements aborts.
IndexPanics(i, len) == i >= len

\* Whether a call of the method aborts.  get_class, get_data and get_version
\* index e_ident; get_type and get_machine read a field and match on it, and
\* every match has a `_` arm.
get_class_panics(self) == IndexPanics(EI_CLASS, Len(self.hdr.e_ident))

get_data_panics(self) == IndexPanics(EI_DATA, Len(self.hdr.e_ident))

get_version_panics(self) == IndexPanics(EI_VERSION, Len(self.hdr.e_ident))

get_type_panics(self) == FALSE

get_machine_panics(self) == FALSE

get_class(self) ==
    LET v == self.hdr.e_ident[EI_CLASS + 1] IN
    IF v = ELFCLASS32 THEN "ELF32"
    ELSE IF v = ELFCLASS64 THEN "ELF64"
    ELSE IF v = ELFCLASSNONE THEN "None"
    ELSE "?"

\* get_data with the labels of the two encodings exchanged.
get_data_swapped(self) ==
    LET v == self.hdr.e_ident[EI_DATA + 1] IN
    IF v = ELFDATA2LSB THEN "Big endian"
    ELSE IF v = ELFDATA2MSB THEN "Little endian"
    ELSE IF v = ELFDATANONE THEN "None"
    ELSE "?"

get_data(self) ==
    LET v == self.hdr.e_ident[EI_DATA + 1] IN
    IF v = ELFDATA2LSB THEN "Little endian"
    ELSE IF v = ELFDATA2MSB THEN "Big endian"
    ELSE IF v = ELFDATANONE THEN "None"
    ELSE "?"

\* get_version with an empty string for the versions it does not know.
get_version_nofallback(self) ==
    LET v == self.hdr.e_ident[EI_VERSION + 1] IN
    IF v = EV_CURRENT THEN "1, (current)"
    ELSE IF v = EV_NONE THEN "0, (invalid)"
    ELSE ""

get_version(self) ==
    LET v == self.hdr.e_ident[EI_VERSION + 1] IN
    IF v = EV_CURRENT THEN "1, (current)"
    ELSE IF v = EV_NONE THEN "0, (invalid)"
    ELSE "?, (unknown)"

get_type(self) ==
    LET v == self.hdr.e_type IN
    IF v = ET_REL THEN "REL (Relocatable file)"
    ELSE IF v = ET_EXEC THEN "EXEC (Executable file)"
    ELSE IF v = ET_DYN THEN "DYN (Shared object file)"
    ELSE IF v = ET_CORE THEN "CORE (Core file)"
    ELSE IF v = ET_LOPROC THEN "LOPROC (Processor-specific)"
    ELSE IF v = ET_HIPROC THEN "HIPROC (Processor-specific)"
    ELSE IF v = ET_NONE THEN "NONE (No file type)"
    ELSE "? (Unknown)"

\* get_machine with the m68k label left on the m88k arm.
get_machine_dup(self) ==
    LET v == self.hdr.e_machine IN
    IF v = EM_NONE THEN "No machine"
    ELSE IF v = EM_M32 THEN "AT&T WE 32100"
    ELSE IF v = EM_SPARC THEN "SUN SPARC"
    ELSE IF v = EM_386 THEN "Intel 80386"
    ELSE IF v = EM_68K THEN "Motorola m68k family"
    ELSE IF v = EM_88K THEN "Motorola m68k family"
    ELSE IF v = EM_860 THEN "Intel 80860"
    ELSE IF v = EM_MIPS THEN "MIPS R3000 big-endian"
    ELSE "?"

get_machine(self) ==
    LET v == self.hdr.e_machine IN
    IF v = EM_NONE THEN "No machine"
    ELSE IF v = EM_M32 THEN "AT&T WE 32100"
    ELSE IF v = EM_SPARC THEN "SUN SPARC"
    ELSE IF v = EM_386 THEN "Intel 80386"
    ELSE IF v = EM_68K THEN "Motorola m68k family"
    ELSE IF v = EM_88K THEN "Motorola m88k family"
    ELSE IF v = EM_860 THEN "Intel 80860"
    ELSE IF v = EM_MIPS THEN "MIPS R3000 big-endian"
    ELSE "?"

\* The println! calls of print_header, in order: each line is its format
\* string and its argument (<< >> when it has none).
print_header(self) ==
    <<
       [fmt |-> "ELF Header:",
        arg |-> << >>],
       [fmt |-> "  Magic:   {}",
        arg |-> <<get_magic(self)>>],
       [fmt |-> "  Class:                             {}",
        arg |-> <<get_class(self)>>],
       [fmt |-> "  Date:                              {}",
        arg |-> <<get_data(self)>>],
       [fmt |-> "  Version:                           {}",
        arg |-> <<get_version(self)>>],
       [fmt |-> "  Type:                              {}",
        arg |-> <<get_type(self)>>],
       [fmt |-> "  Machine:                           {}",
        arg |-> <<get_machine(self)>>],
       [fmt |-> "  Version:                           {:#x}",
        arg |-> <<self.hdr.e_version>>],
       [fmt |-> "  Entry point address:               {:#x}",
        arg |-> <<self.hdr.e_entry>>],
       [fmt |-> "  Start of program headers:          {} (bytes)",
        arg |-> <<self.hdr.e_phoff>>],
       [fmt |-> "  Start of section headers:          {} (bytes)",
        arg |-> <<self.hdr.e_shoff>>],
       [fmt |-> "  Flags:                             {:#x}",
        arg |-> <<self.hdr.e_flags>>],
       [fmt |-> "  Size of this header:               {} (bytes)",
        arg |-> <<self.hdr.e_ehsize>>],
       [fmt |-> "  Size of program headers:           {} (bytes)",
        arg |-> <<self.hdr.e_phentsize>>],
       [fmt |-> "  Number of program headers:         {}",
        arg |-> <<self.hdr.e_phnum>>],
       [fmt |-> "  Size of section headers:           {} (bytes)",
        arg |-> <<self.hdr.e_shentsize>>],
       [fmt |-> "  Number of section headers:         {}",
        arg |-> <<self.hdr.e_shnum>>],
       [fmt |-> "  Section header string table index: {}",
        arg |-> <<self.hdr.e_shstrndx>>]
    >>

-----------------------------------------------------------------------------
(* Section header: src/elf/sechdr.rs.  Every field and constant is a u32.  *)

\* SHN_UNDEF: u32 = 0
SHN_UNDEF == u32(0)

\* SHN_LORESERVE: u32 = 0xff00
SHN_LORESERVE == u32(65280)

\* SHN_LOPROC: u32 = 0xff00
SHN_LOPROC == u32(65280)

\* SHN_HIPROC: u32 = 0xff1f
SHN_HIPROC == u32(65311)

\* SHN_ABS: u32 = 0xfff1
SHN_ABS == u32(65521)

\* SHN_COMMON: u32 = 0xfff2
SHN_COMMON == u32(65522)

\* SHN_HIRESERVE: u32 = 0xfff
SHN_HIRESERVE == u32(4095)

\* SHT_NULL: u32 = 0
SHT_NULL == u32(0)

\* SHT_PROGBITS: u32 = 1
SHT_PROGBITS == u32(1)

\* SHT_SYMTAB: u32 = 2
SHT_SYMTAB == u32(2)

\* SHT_DYNSYM: u32 = 0xb
SHT_DYNSYM == u32(11)

\* SHT_STRTAB: u32 = 3
SHT_STRTAB == u32(3)

\* SHT_RELA: u32 = 4
SHT_RELA == u32(4)

\* SHT_HASH: u32 = 5
SHT_HASH == u32(5)

\* SHT_DYNAMIC: u32 = 6
SHT_DYNAMIC == u32(6)

\* SHT_NOTE: u32 = 7
SHT_NOTE == u32(7)

\* SHT_NOBITS: u32 = 8
SHT_NOBITS == u32(8)

\* SHT_REL: u32 = 9
SHT_REL == u32(9)

\* SHT_SHLIB: u32 = 0xa
SHT_SHLIB == u32(10)

\* SHT_LOPROC: u32 = 0x70000000
SHT_LOPROC == u32(1879048192)

\* SHT_HIPROC: u32 = 0x7fffffff
SHT_HIPROC == u32(2147483647)

\* SHT_LOUSER with one zero fewer: 0x8000000.
SHT_LOUSER_short == U32(2048, 0)

\* SHT_LOUSER: u32 = 0x80000000
SHT_LOUSER == U32(32768, 0)

\* SHT_HIUSER: u32 = 0xffffffff
SHT_HIUSER == U32(65535, 65535)

\* SHF_WRITE: u32 = 1
SHF_WRITE == u32(1)

\* SHF_ALLOC: u32 = 2
SHF_ALLOC == u32(2)

\* SHF_EXECINSTR: u32 = 4
SHF_EXECINSTR == u32(4)

\* SHF_MASKPROC: u32 = 0xf0000000
SHF_MASKPROC == U32(61440, 0)

\* #[repr(C, packed)] struct Elf32_Shdr: the fields in declaration order,
\* each with its size in bytes.
Elf32_Shdr_layout ==
    << <<"sh_name", SizeOfWord>>,
       <<"sh_type", SizeOfWord>>,
       <<"sh_flags", SizeOfWord>>,
       <<"sh_addr", SizeOfAddr>>,
       <<"sh_offset", SizeOfOff>>,
       <<"sh_size", SizeOfWord>>,
       <<"sh_link", SizeOfWord>>,
       <<"sh_info", SizeOfWord>>,
       <<"sh_addralign", SizeOfWord>>,
       <<"sh_entsize", SizeOfWord>> >>

is_bss_section(section, name) ==
    /\ section.sh_type = SHT_NOBITS
    /\ section.sh_flags = u32(0)
    /\ name = ".bss"

is_data_section(section, name) ==
    /\ section.sh_type = SHT_PROGBITS
    /\ AndU32(section.sh_flags, OrU32(SHF_ALLOC, SHF_WRITE)) = OrU32(SHF_ALLOC, SHF_WRITE)
    /\ name = ".data"

\* is_data1_section comparing the name with that of is_data_section, as a
\* copy of the function above left unedited would.
is_data1_section_dataname(section, name) ==
    /\ section.sh_type = SHT_PROGBITS
    /\ AndU32(section.sh_flags, OrU32(SHF_ALLOC, SHF_WRITE)) = OrU32(SHF_ALLOC, SHF_WRITE)
    /\ name = ".data"

is_data1_section(section, name) ==
    /\ section.sh_type = SHT_PROGBITS
    /\ AndU32(section.sh_flags, OrU32(SHF_ALLOC, SHF_WRITE)) = OrU32(SHF_ALLOC, SHF_WRITE)
    /\ name = ".data1"

is_debug_section(section, name) ==
    /\ section.sh_type = SHT_PROGBITS
    /\ section.sh_flags = u32(0)
    /\ name = ".debug"

is_dynamic_section(section, name) ==
    /\ section.sh_type = SHT_DYNAMIC
    /\ name = ".dynamic"

is_dynstr_section(section, name) ==
    /\ section.sh_type = SHT_STRTAB
    /\ AndU32(section.sh_flags, SHF_ALLOC) = SHF_ALLOC
    /\ name = ".dynstr"

is_dynsym_section(section, name) ==
    /\ section.sh_type = SHT_DYNSYM
    /\ AndU32(section.sh_flags, SHF_ALLOC) = SHF_ALLOC
    /\ name = ".dynsym"

is_fini_section(section, name) ==
    /\ section.sh_type = SHT_PROGBITS
    /\ AndU32(section.sh_flags, OrU32(SHF_ALLOC, SHF_EXECINSTR)) = OrU32(SHF_ALLOC, SHF_EXECINSTR)
    /\ name = ".fini"

is_got_section(section, name) ==
    /\ section.sh_type = SHT_PROGBITS
    /\ name = ".got"

is_hash_section(section, name) ==
    /\ section.sh_type = SHT_PROGBITS
    /\ AndU32(section.sh_flags, SHF_ALLOC) = SHF_ALLOC
    /\ name = ".hash"

is_init_section(section, name) ==
    /\ section.sh_type = SHT_PROGBITS
    /\ name = ".init"

is_line_section(section, name) ==
    /\ section.sh_type = SHT_PROGBITS
    /\ section.sh_flags = u32(0)
    /\ name = ".line"

is_note_section(section, name) ==
    /\ section.sh_type = SHT_NOTE
    /\ name = ".note"

is_plt_section(section, name) ==
    /\ section.sh_type = SHT_PROGBITS
    /\ name = ".plt"

is_rodata_section(section, name) ==
    /\ section.sh_type = SHT_PROGBITS
    /\ AndU32(section.sh_flags, SHF_ALLOC) = SHF_ALLOC
    /\ name = ".rodata"

is_rodata1_section(section, name) ==
    /\ section.sh_type = SHT_PROGBITS
    /\ AndU32(section.sh_flags, SHF_ALLOC) = SHF_ALLOC
    /\ name = ".rodata1"

is_shstrtab_section(section, name) ==
    /\ section.sh_type = SHT_STRTAB
    /\ name = ".shstrtab"

is_strtab_section(section, name) ==
    /\ section.sh_type = SHT_STRTAB
    /\ name = ".strtab"

\* is_symtab_section without the comparison of the type.
is_symtab_section_anytype(section, name) ==
    /\ name = ".symtab"

is_symtab_section(section, name) ==
    /\ section.sh_type = SHT_SYMTAB
    /\ name = ".symtab"

\* is_text_section comparing the whole flag word instead of the two bits.
is_text_section_exactflags(section, name) ==
    /\ section.sh_type = SHT_PROGBITS
    /\ section.sh_flags = OrU32(SHF_ALLOC, SHF_EXECINSTR)
    /\ name = ".text"

\* is_text_section without the comparison of the name.
is_text_section_anyname(section, name) ==
    /\ section.sh_type = SHT_PROGBITS
    /\ AndU32(section.sh_flags, OrU32(SHF_ALLOC, SHF_EXECINSTR)) = OrU32(SHF_ALLOC, SHF_EXECINSTR)

is_text_section(section, name) ==
    /\ section.sh_type = SHT_PROGBITS
    /\ AndU32(section.sh_flags, OrU32(SHF_ALLOC, SHF_EXECINSTR)) = OrU32(SHF_ALLOC, SHF_EXECINSTR)
    /\ name = ".text"

-----------------------------------------------------------------------------
(* The other records: src/elf/progtbl.rs, src/elf/symtbl.rs,               *)
(* src/elf/reloc.rs, src/elf/dynsec.rs.  All are #[repr(C, packed)].       *)

Elf32_Phdr_layout ==
    << <<"p_type", SizeOfWord>>,
       <<"p_offset", SizeOfOff>>,
       <<"p_vaddr", SizeOfAddr>>,
       <<"p_paddr", SizeOfAddr>>,
       <<"p_filesz", SizeOfWord>>,
       <<"p_memsz", SizeOfWord>>,
       <<"p_flags", SizeOfWord>>,
       <<"p_align", SizeOfWord>> >>

Elf32_Sym_layout ==
    << <<"st_name", SizeOfWord>>,
       <<"st_value", SizeOfAddr>>,
       <<"st_size", SizeOfWord>>,
       <<"st_info", SizeOfU8>>,
       <<"st_other", SizeOfU8>>,
       <<"st_shndx", SizeOfHalf>> >>

Elf32_Rel_layout ==
    << <<"r_offset", SizeOfAddr>>,
       <<"r_info", SizeOfWord>> >>

Elf32_Rela_layout ==
    << <<"r_offset", SizeOfAddr>>,
       <<"r_info", SizeOfWord>>,
       <<"r_addend", SizeOfSword>> >>

\* #[repr(C, packed)] union Dyn_Union: its members, which all begin at
\* offset 0.
Dyn_Union_members ==
    << <<"d_val", SizeOfWord>>,
       <<"d_ptr", SizeOfAddr>> >>

\* The size of a packed union: that of its largest member.
SizeOfUnion(members) ==
    CHOOSE n \in {members[i][2] : i \in 1..Len(members)} :
        \A i \in 1..Len(members) : members[i][2] <= n

Elf32_Dyn_layout ==
    << <<"d_tag", SizeOfSword>>,
       <<"d_un", SizeOfUnion(Dyn_Union_members)>> >>

-----------------------------------------------------------------------------
(* The enumerations of the other records: segment types                    *)
(* (src/elf/progtbl.rs), dynamic tags (src/elf/dynsec.rs), symbol bindings *)
(* and types (src/elf/symtbl.rs).                                          *)

\* PT_NULL: u32 = 0
PT_NULL == u32(0)

\* PT_LOAD: u32 = 1
PT_LOAD == u32(1)

\* PT_DYNAMIC: u32 = 2
PT_DYNAMIC == u32(2)

\* PT_INTERP: u32 = 3
PT_INTERP == u32(3)

\* PT_NOTE: u32 = 4
PT_NOTE == u32(4)

\* PT_SHLIB: u32 = 5
PT_SHLIB == u32(5)

\* PT_PHDR: u32 = 6
PT_PHDR == u32(6)

\* PT_LOPROC: u32 = 0x70000000
PT_LOPROC == u32(1879048192)

\* PT_HIPROC: u32 = 0x7fffffff
PT_HIPROC == u32(2147483647)

\* DT_NULL: u32 = 0
DT_NULL == u32(0)

\* DT_NEEDED: u32 = 1
DT_NEEDED == u32(1)

\* DT_PLTRELSZ: u32 = 2
DT_PLTRELSZ == u32(2)

\* DT_PLTGOT: u32 = 3
DT_PLTGOT == u32(3)

\* DT_HASH: u32 = 4
DT_HASH == u32(4)

\* DT_STRTAB: u32 = 5
DT_STRTAB == u32(5)

\* DT_SYMTAB: u32 = 6
DT_SYMTAB == u32(6)

\* DT_RELA: u32 = 7
DT_RELA == u32(7)

\* DT_RELASZ: u32 = 8
DT_RELASZ == u32(8)

\* DT_RELAENT: u32 = 9
DT_RELAENT == u32(9)

\* DT_STRSZ: u32 = 10
DT_STRSZ == u32(10)

\* DT_SYMENT: u32 = 11
DT_SYMENT == u32(11)

\* DT_INIT: u32 = 12
DT_INIT == u32(12)

\* DT_FINI: u32 = 13
DT_FINI == u32(13)

\* DT_SONAME: u32 = 14
DT_SONAME == u32(14)

\* DT_RPATH: u32 = 15
DT_RPATH == u32(15)

\* DT_SYMBOLIC: u32 = 16
DT_SYMBOLIC == u32(16)

\* DT_REL: u32 = 17
DT_REL == u32(17)

\* DT_RELSZ: u32 = 18
DT_RELSZ == u32(18)

\* DT_RELENT: u32 = 19
DT_RELENT == u32(19)

\* DT_PLTREL: u32 = 20
DT_PLTREL == u32(20)

\* DT_DEBUG: u32 = 21
DT_DEBUG == u32(21)

\* DT_TEXTREL: u32 = 22
DT_TEXTREL == u32(22)

\* DT_JMPREL: u32 = 23
DT_JMPREL == u32(23)

\* DT_LOPROC: u32 = 0x70000000
DT_LOPROC == u32(1879048192)

\* DT_HIPROC: u32 = 0x7fffffff
DT_HIPROC == u32(2147483647)

\* STB_LOCAL: u8 = 0
STB_LOCAL == 0

\* STB_GLOBAL: u8 = 1
STB_GLOBAL == 1

\* STB_WEAK: u8 = 2
STB_WEAK == 2

\* STB_LOPROC: u8 = 13
STB_LOPROC == 13

\* STB_HIPROC: u8 = 15
STB_HIPROC == 15

\* STT_NOTYPE: u8 = 0
STT_NOTYPE == 0

\* STT_OBJECT: u8 = 1
STT_OBJECT == 1

\* STT_FUNC: u8 = 2
STT_FUNC == 2

\* STT_SECTION: u8 = 3
STT_SECTION == 3

\* STT_FILE: u8 = 4
STT_FILE == 4

\* STT_LOPROC: u8 = 13
STT_LOPROC == 13

\* STT_HIPROC: u8 = 15
STT_HIPROC == 15

-----------------------------------------------------------------------------
(* The section predicates' names and calls.                                *)

\* The predicates, in the order of the source file.
PredNames ==
    <<"is_bss_section",
      "is_data_section",
      "is_data1_section",
      "is_debug_section",
      "is_dynamic_section",
      "is_dynstr_section",
      "is_dynsym_section",
      "is_fini_section",
      "is_got_section",
      "is_hash_section",
      "is_init_section",
      "is_line_section",
      "is_note_section",
      "is_plt_section",
      "is_rodata_section",
      "is_rodata1_section",
      "is_shstrtab_section",
      "is_strtab_section",
      "is_symtab_section",
      "is_text_section">>

\* The call of the predicate named p.
CallPred(p, section, name) ==
    CASE p = "is_bss_section" -> is_bss_section(section, name)
      [] p = "is_data_section" -> is_data_section(section, name)
      [] p = "is_data1_section" -> is_data1_section(section, name)
      [] p = "is_debug_section" -> is_debug_section(section, name)
      [] p = "is_dynamic_section" -> is_dynamic_section(section, name)
      [] p = "is_dynstr_section" -> is_dynstr_section(section, name)
      [] p = "is_dynsym_section" -> is_dynsym_section(section, name)
      [] p = "is_fini_section" -> is_fini_section(section, name)
      [] p = "is_got_section" -> is_got_section(section, name)
      [] p = "is_hash_section" -> is_hash_section(section, name)
      [] p = "is_init_section" -> is_init_section(section, name)
      [] p = "is_line_section" -> is_line_section(section, name)
      [] p = "is_note_section" -> is_note_section(section, name)
      [] p = "is_plt_section" -> is_plt_section(section, name)
      [] p = "is_rodata_section" -> is_rodata_section(section, name)
      [] p = "is_rodata1_section" -> is_rodata1_section(section, name)
      [] p = "is_shstrtab_section" -> is_shstrtab_section(section, name)
      [] p = "is_strtab_section" -> is_strtab_section(section, name)
      [] p = "is_symtab_section" -> is_symtab_section(section, name)
      [] p = "is_text_section" -> is_text_section(section, name)

-----------------------------------------------------------------------------
(* Each specification below runs one part of the repository; the other     *)
(* parts' variables rest at these values.                                  *)

CodecIdle ==
    /\ cpc = "off"
    /\ carg = << >>
    /\ cinfo = << >>
    /\ cfld = << >>
    /\ cre = << >>
    /\ cpanic = FALSE

MainIdle ==
    /\ buf = [data |-> << >>, zeros |-> 0]
    /\ host = "little"
    /\ pc = "off"
    /\ parser = << >>
    /\ out = << >>
    /\ result = ""
    /\ nread = 0

SectIdle ==
    /\ spc = "off"
    /\ sec = << >>
    /\ sname = ""
    /\ cls = << >>
    /\ sprev = << >>

ParserIdle ==
    /\ ppc = "off"
    /\ phdr = << >>
    /\ pself = << >>
    /\ pseen = << >>
    /\ pret = << >>
    /\ pn = 0
    /\ pfail = FALSE

ThreadsIdle ==
    /\ tshared = << >>
    /\ tshared0 = << >>
    /\ tpc = << >>
    /\ tfn = << >>
    /\ tit = << >>
    /\ tstr = << >>
    /\ tret = << >>
    /\ tover = << >>

-----------------------------------------------------------------------------
(* Inputs of the codec harness.                                            *)

\* 16-bit values next to a power of two, and a few mixed bit patterns
\* (0x1234, 0x5a5a, 0xa5a5, 0xabcd).
HalfSamples ==
    ({(2 ^ k) + d : k \in 0..16, d \in (0 - SampleSpan)..SampleSpan} \cap U16)
        \cup {4660, 23130, 42405, 43981}

\* Bytes next to a power of two, and two mixed bit patterns (0x5a, 0xa5).
ByteSamples ==
    ({(2 ^ k) + d : k \in 0..8, d \in (0 - SampleSpan)..SampleSpan} \cap U8)
        \cup {90, 165}

WordSamples == {U32(h, l) : h \in HalfSamples, l \in HalfSamples}

-----------------------------------------------------------------------------
(* The symbol-info harness: every u8 argument pair is packed, every byte   *)
(* is unpacked, and the unpacked fields are packed again.                  *)

InitSym ==
    /\ \/ /\ cpc = "args"
          /\ carg \in U8 \X U8
          /\ cinfo = << >>
       \/ /\ cpc = "info"
          /\ carg = << >>
          /\ cinfo \in {<<x>> : x \in U8}
    /\ cfld = << >>
    /\ cre = << >>
    /\ cpanic = FALSE
    /\ MainIdle
    /\ SectIdle
    /\ ParserIdle
    /\ ThreadsIdle

\* st_info = elf32_st_info(bind, typ)
StInfo ==
    /\ cpc = "args"
    /\ cpanic' = elf32_st_info_panics(carg[1], carg[2])
    /\ cinfo' = IF cpanic' THEN << >> ELSE <<elf32_st_info(carg[1], carg[2])>>
    /\ cpc' = IF cpanic' THEN "done" ELSE "info"
    /\ UNCHANGED <<carg, cfld, cre>>
    /\ UNCHANGED <<hvars, svars, pvars, tvars>>

\* (elf32_st_bind(st_info), elf32_st_type(st_info))
StUnpack ==
    /\ cpc = "info"
    /\ cfld' = <<elf32_st_bind(cinfo[1]), elf32_st_type(cinfo[1])>>
    /\ cpc' = "fields"
    /\ UNCHANGED <<carg, cinfo, cre, cpanic>>
    /\ UNCHANGED <<hvars, svars, pvars, tvars>>

\* elf32_st_info(bind, type) of the fields just unpacked
StRepack ==
    /\ cpc = "fields"
    /\ cpanic' = elf32_st_info_panics(cfld[1], cfld[2])
    /\ cre' = IF cpanic' THEN << >> ELSE <<elf32_st_info(cfld[1], cfld[2])>>
    /\ cpc' = "done"
    /\ UNCHANGED <<carg, cinfo, cfld>>
    /\ UNCHANGED <<hvars, svars, pvars, tvars>>

NextSym == StInfo \/ StUnpack \/ StRepack

SpecSym == InitSym /\ [][NextSym]_vars

-----------------------------------------------------------------------------
(* The relocation-info harness, over the sampled words and bytes.          *)

InitRel ==
    /\ \/ /\ cpc = "args"
          /\ carg \in WordSamples \X ByteSamples
          /\ cinfo = << >>
       \/ /\ cpc = "info"
          /\ carg = << >>
          /\ cinfo \in {<<w>> : w \in WordSamples}
    /\ cfld = << >>
    /\ cre = << >>
    /\ cpanic = FALSE
    /\ MainIdle
    /\ SectIdle
    /\ ParserIdle
    /\ ThreadsIdle

\* r_info = elf32_r_info(sym, typ)
RInfo ==
    /\ cpc = "args"
    /\ cpanic' = elf32_r_info_panics(carg[1], carg[2])
    /\ cinfo' = IF cpanic' THEN << >> ELSE <<elf32_r_info(carg[1], carg[2])>>
    /\ cpc' = IF cpanic' THEN "done" ELSE "info"
    /\ UNCHANGED <<carg, cfld, cre>>
    /\ UNCHANGED <<hvars, svars, pvars, tvars>>

\* (elf32_r_sym(r_info), elf32_r_type(r_info))
RUnpack ==
    /\ cpc = "info"
    /\ cfld' = <<elf32_r_sym(cinfo[1]), elf32_r_type(cinfo[1])>>
    /\ cpc' = "fields"
    /\ UNCHANGED <<carg, cinfo, cre, cpanic>>
    /\ UNCHANGED <<hvars, svars, pvars, tvars>>

\* elf32_r_info(sym, type) of the fields just unpacked
RRepack ==
    /\ cpc = "fields"
    /\ cpanic' = elf32_r_info_panics(cfld[1], cfld[2])
    /\ cre' = IF cpanic' THEN << >> ELSE <<elf32_r_info(cfld[1], cfld[2])>>
    /\ cpc' = "done"
    /\ UNCHANGED <<carg, cinfo, cfld>>
    /\ UNCHANGED <<hvars, svars, pvars, tvars>>

NextRel == RInfo \/ RUnpack \/ RRepack

SpecRel == InitRel /\ [][NextRel]_vars

-----------------------------------------------------------------------------
(* The program: src/main.rs.                                               *)

\* static BYTES: &[u8;528]
BYTES_LEN == 528

\* The bytes of e_version .. e_shstrndx in the sampled images: e_version 1,
\* e_entry 0x08048054, e_phoff 52, e_shoff 288, e_flags 0, e_ehsize 52,
\* e_phentsize 32, e_phnum 1, e_shentsize 40, e_shnum 5, e_shstrndx 4, as
\* a little-endian file stores them.
ImageRest ==
    <<1, 0, 0, 0,  84, 128, 4, 8,  52, 0, 0, 0,  32, 1, 0, 0,  0, 0, 0, 0,
      52, 0,  32, 0,  1, 0,  40, 0,  5, 0,  4, 0>>

\* Length of a buffer, and its byte at index i (from 1).
BufLen(b) == Len(b.data) + b.zeros

ByteAt(b, i) == IF i <= Len(b.data) THEN b.data[i] ELSE 0

\* A file image of BYTES_LEN bytes: the magic, the class, data and version
\* bytes, zero padding to 16, the two bytes of e_type, the two bytes of
\* e_machine, ImageRest, and zeros to the end.
Image(magic, class, data, version, typ, machine) ==
    [data |-> magic \o <<class, data, version>> \o <<0, 0, 0, 0, 0, 0, 0, 0, 0>>
                \o typ \o machine \o ImageRest,
     zeros |-> BYTES_LEN - 52]

\* The ELF magic, an all-zero prefix, a prefix wrong in its last byte, and
\* the "MZ" prefix of another executable format.
MagicSamples == {ELF_MAGIC, <<0, 0, 0, 0>>, <<127, 69, 76, 71>>, <<77, 90, 144, 0>>}

Images ==
    {Image(mg, cl, da, ve, ty, ma) :
        mg \in MagicSamples,
        cl \in {ELFCLASSNONE, ELFCLASS32, ELFCLASS64, 3},
        da \in {ELFDATANONE, ELFDATA2LSB, ELFDATA2MSB, 3},
        ve \in {EV_NONE, EV_CURRENT, 2},
        ty \in {<<2, 0>>, <<0, 2>>, <<3, 0>>, <<0, 255>>, <<255, 255>>},
        ma \in {<<3, 0>>, <<0, 3>>, <<8, 0>>}}

\* *(BYTES.as_ptr() as *const Elf32_Ehdr): the n bytes at the address of the
\* buffer.  BYTES is a &[u8;528], the array length is part of its type, and
\* n is the size of an Elf32_Ehdr: the read is inside the array.
DerefBytes(b, n) == [i \in 1..n |-> ByteAt(b, i)]

InitMain ==
    /\ buf \in Images
    /\ host \in {"little", "big"}
    /\ pc = "start"
    /\ parser = << >>
    /\ out = << >>
    /\ result = ""
    /\ nread = 0
    /\ CodecIdle
    /\ SectIdle
    /\ ParserIdle
    /\ ThreadsIdle

\* fn main(): cast, copy the header out, build the parser, print.  There is
\* no check of the bytes and no error path: main returns ().
Main ==
    /\ pc = "start"
    /\ LET header == ReadEhdr(DerefBytes(buf, SizeOf(Elf32_Ehdr_layout)), host)
           elf_parser == ElfParser_new(header)
       IN  /\ parser' = <<elf_parser>>
           /\ out' = print_header(elf_parser)
           /\ result' = "exit0"
    /\ nread' = SizeOf(Elf32_Ehdr_layout)
    /\ pc' = "done"
    /\ UNCHANGED <<buf, host>>
    /\ UNCHANGED <<cvars, svars, pvars, tvars>>

NextMain == Main

SpecMain == InitMain /\ [][NextMain]_vars

-----------------------------------------------------------------------------
(* The section-predicate harness: a section header and a name are handed   *)
(* to all twenty predicates; the section may then be given another name    *)
(* once and handed to them again.                                          *)

\* An Elf32_Shdr with the given type and flags, the other fields zero.
Shdr(type, flags) ==
    [sh_name |-> u32(0), sh_type |-> type, sh_flags |-> flags,
     sh_addr |-> u32(0), sh_offset |-> u32(0), sh_size |-> u32(0),
     sh_link |-> u32(0), sh_info |-> u32(0), sh_addralign |-> u32(0),
     sh_entsize |-> u32(0)]

\* Section types 0..MaxShType and the ends of the reserved ranges.
ShTypeSamples ==
    {u32(n) : n \in 0..MaxShType}
        \cup {SHT_LOPROC, SHT_HIPROC, SHT_LOUSER, SHT_HIUSER}

\* Flag words 0..MaxShFlags (every combination of the three named bits),
\* and the processor mask alone and on top of ALLOC | EXECINSTR.
ShFlagsSamples ==
    {u32(n) : n \in 0..MaxShFlags}
        \cup {SHF_MASKPROC, OrU32(SHF_MASKPROC, OrU32(SHF_ALLOC, SHF_EXECINSTR))}

\* Every conventional name, and names that are none of them.
NameSamples ==
    {".bss", ".data", ".data1", ".debug", ".dynamic", ".dynstr", ".dynsym", ".fini", ".got", ".hash",
     ".init", ".line", ".note", ".plt", ".rodata", ".rodata1",
     ".shstrtab", ".strtab", ".symtab", ".text",
     ".foo", "", "text", ".TEXT"}

InitSect ==
    /\ spc = "args"
    /\ sec \in {Shdr(t, f) : t \in ShTypeSamples, f \in ShFlagsSamples}
    /\ sname \in NameSamples
    /\ cls = << >>
    /\ sprev = << >>
    /\ CodecIdle
    /\ MainIdle
    /\ ParserIdle
    /\ ThreadsIdle

\* is_X_section(&sec, sname) for each of the twenty predicates.
Classify ==
    /\ spc = "args"
    /\ cls' = <<[i \in 1..Len(PredNames) |-> CallPred(PredNames[i], sec, sname)]>>
    /\ spc' = "done"
    /\ UNCHANGED <<sec, sname, sprev>>
    /\ UNCHANGED <<cvars, hvars, pvars, tvars>>

\* The same section header under another name (once).
Rename ==
    /\ spc = "done"
    /\ sprev = << >>
    /\ \E n \in NameSamples \ {sname} : sname' = n
    /\ sprev' = <<[name |-> sname, cls |-> cls[1]]>>
    /\ cls' = << >>
    /\ spc' = "args"
    /\ UNCHANGED sec
    /\ UNCHANGED <<cvars, hvars, pvars, tvars>>

NextSect == Classify \/ Rename

SpecSect == InitSect /\ [][NextSect]_vars

-----------------------------------------------------------------------------
(* The ElfParser harness: a header is handed to ElfParser::new and the      *)
(* public methods are then called on the parser, in any order, up to        *)
(* MaxCalls times.                                                          *)

\* The header a little-endian host reads from the image with the given
\* class, data and version bytes, e_type and e_machine.
HdrOf(class, data, version, typ, machine) ==
    ReadEhdr(DerefBytes(Image(ELF_MAGIC, class, data, version,
                              <<typ % 256, typ \div 256>>,
                              <<machine % 256, machine \div 256>>),
                        SizeOf(Elf32_Ehdr_layout)),
             "little")

\* Identification bytes: 0..MaxIdent and the sampled bytes.
IdentSamples == (0..MaxIdent) \cup ByteSamples

\* e_type: 0..MaxEType, the sampled 16-bit values, and every value from
\* ET_LOPROC - 1 to ET_HIPROC.
ETypeSamples == (0..MaxEType) \cup HalfSamples \cup ((ET_LOPROC - 1)..ET_HIPROC)

\* e_machine: 0..MaxEMachine and the sampled 16-bit values.
EMachineSamples == (0..MaxEMachine) \cup HalfSamples

\* Headers that differ from the ELF32, little-endian, version 1, EXEC,
\* EM_386 header in one field, and headers with every combination of the
\* identification bytes 0..MaxIdent.
HeaderSamples ==
    {HdrOf(c, ELFDATA2LSB, EV_CURRENT, ET_EXEC, EM_386) : c \in IdentSamples}
        \cup {HdrOf(ELFCLASS32, d, EV_CURRENT, ET_EXEC, EM_386) : d \in IdentSamples}
        \cup {HdrOf(ELFCLASS32, ELFDATA2LSB, v, ET_EXEC, EM_386) : v \in IdentSamples}
        \cup {HdrOf(ELFCLASS32, ELFDATA2LSB, EV_CURRENT, t, EM_386) : t \in ETypeSamples}
        \cup {HdrOf(ELFCLASS32, ELFDATA2LSB, EV_CURRENT, ET_EXEC, m) : m \in EMachineSamples}
        \cup {HdrOf(c, d, v, ET_EXEC, EM_386) :
                 c \in 0..MaxIdent, d \in 0..MaxIdent, v \in 0..MaxIdent}

\* The public methods of ElfParser that take &self, in source order.
Methods ==
    <<"print_header", "get_magic", "get_class", "get_data", "get_version",
      "get_type", "get_machine">>

InitParser ==
    /\ ppc = "new"
    /\ phdr \in HeaderSamples
    /\ pself = << >>
    /\ pseen = [m \in {Methods[i] : i \in 1..Len(Methods)} |-> << >>]
    /\ pret = << >>
    /\ pn = 0
    /\ pfail = FALSE
    /\ CodecIdle
    /\ MainIdle
    /\ SectIdle
    /\ ThreadsIdle

\* let elf_parser = ElfParser::new(hdr);
New ==
    /\ ppc = "new"
    /\ pself' = <<ElfParser_new(phdr)>>
    /\ ppc' = "calls"
    /\ UNCHANGED <<phdr, pseen, pret, pn, pfail>>
    /\ UNCHANGED <<cvars, hvars, svars, tvars>>

\* A call of method m on &self that aborts (panics = TRUE) or returns val.
\* The receiver is borrowed immutably and no method assigns to a field, so
\* the parser is left as it was.
Call(m, panics, val) ==
    /\ ppc = "calls"
    /\ ~pfail
    /\ pn < MaxCalls
    /\ pn' = pn + 1
    /\ pfail' = panics
    /\ pret' = IF panics THEN << >> ELSE <<[fn |-> m, val |-> val]>>
    /\ pseen' = IF panics \/ pseen[m] # << >> THEN pseen
                 ELSE [pseen EXCEPT ![m] = <<val>>]
    /\ UNCHANGED <<ppc, phdr, pself>>
    /\ UNCHANGED <<cvars, hvars, svars, tvars>>

\* elf_parser.print_header(): the value recorded is what it printed.
CallPrintHeader ==
    Call("print_header",
         get_class_panics(pself[1]) \/ get_data_panics(pself[1])
            \/ get_version_panics(pself[1]) \/ get_type_panics(pself[1])
            \/ get_machine_panics(pself[1]),
         print_header(pself[1]))

CallGetMagic == Call("get_magic", FALSE, get_magic(pself[1]))

CallGetClass == Call("get_class", get_class_panics(pself[1]), get_class(pself[1]))

CallGetData == Call("get_data", get_data_panics(pself[1]), get_data(pself[1]))

CallGetVersion ==
    Call("get_version", get_version_panics(pself[1]), get_version(pself[1]))

CallGetType == Call("get_type", get_type_panics(pself[1]), get_type(pself[1]))

CallGetMachine ==
    Call("get_machine", get_machine_panics(pself[1]), get_machine(pself[1]))

NextParser ==
    \/ New
    \/ CallPrintHeader
    \/ CallGetMagic
    \/ CallGetClass
    \/ CallGetData
    \/ CallGetVersion
    \/ CallGetType
    \/ CallGetMachine

SpecParser == InitParser /\ [][NextParser]_vars

-----------------------------------------------------------------------------
(* Threads.  NumThreads threads hold shared references to one ElfParser,   *)
(* one Elf32_Shdr with its name, and one symbol and one relocation record, *)
(* and each calls the label getters, get_magic, the codec functions and    *)
(* the section predicates, any number of times, in any interleaving.       *)
(* Every function but get_magic reads its operands once and has no state   *)
(* of its own: its call is one step.  get_magic copies e_ident, creates a  *)
(* String and pushes to it once per byte: one step per loop iteration.     *)

Threads == 1..NumThreads

\* Two parsers (an ELF32 little-endian executable for the 386; an ELF64
\* big-endian file of version 0, type ET_HIPROC, for MIPS), each with a
\* section and a pair of info values.
SharedSamples ==
    {[self |-> ElfParser_new(HdrOf(ELFCLASS32, ELFDATA2LSB, EV_CURRENT, ET_EXEC, EM_386)),
      sec |-> Shdr(SHT_PROGBITS, OrU32(SHF_ALLOC, SHF_EXECINSTR)),
      name |-> ".text",
      st_info |-> 18,
      r_info |-> U32(4660, 23047)],
     [self |-> ElfParser_new(HdrOf(ELFCLASS64, ELFDATA2MSB, EV_NONE, ET_HIPROC, EM_MIPS)),
      sec |-> Shdr(SHT_SYMTAB, u32(0)),
      name |-> ".symtab",
      st_info |-> 165,
      r_info |-> U32(65535, 65281)]}

\* The functions that are called in one step, and what each returns for
\* the shared values sh.
LabelGetters == {"get_class", "get_data", "get_version", "get_type", "get_machine"}

CodecFunctions ==
    {"elf32_st_bind", "elf32_st_type", "elf32_st_info",
     "elf32_r_sym", "elf32_r_type", "elf32_r_info"}

\* The pack functions are called with the two fields unpacked from the
\* shared info value.
CallFn(f, sh) ==
    CASE f = "get_class" -> get_class(sh.self)
      [] f = "get_data" -> get_data(sh.self)
      [] f = "get_version" -> get_version(sh.self)
      [] f = "get_type" -> get_type(sh.self)
      [] f = "get_machine" -> get_machine(sh.self)
      [] f = "elf32_st_bind" -> elf32_st_bind(sh.st_info)
      [] f = "elf32_st_type" -> elf32_st_type(sh.st_info)
      [] f = "elf32_st_info" ->
            elf32_st_info(elf32_st_bind(sh.st_info), elf32_st_type(sh.st_info))
      [] f = "elf32_r_sym" -> elf32_r_sym(sh.r_info)
      [] f = "elf32_r_type" -> elf32_r_type(sh.r_info)
      [] f = "elf32_r_info" ->
            elf32_r_info(elf32_r_sym(sh.r_info), elf32_r_type(sh.r_info))
      [] OTHER -> CallPred(f, sh.sec, sh.name)

\* One String shared by every call.
MagicBuf_static(t) == 1

\* let mut s = String::with_capacity(56): a local of the call, so each
\* thread inside get_magic has a String of its own.
MagicBuf(t) == t

InitThreads ==
    /\ tshared \in SharedSamples
    /\ tshared0 = tshared
    /\ tpc = [t \in Threads |-> "idle"]
    /\ tfn = [t \in Threads |-> ""]
    /\ tit = [t \in Threads |-> << >>]
    /\ tstr = [b \in Threads |-> << >>]
    /\ tret = [t \in Threads |-> << >>]
    /\ tover = [t \in Threads |-> FALSE]
    /\ CodecIdle
    /\ MainIdle
    /\ SectIdle
    /\ ParserIdle

\* Thread t calls f, which reads through the shared references and returns.
\* No function takes a mutable reference or assigns through a pointer: the
\* shared values are left as they are.
ThreadCall(t, f) ==
    /\ tpc[t] = "idle"
    /\ tfn' = [tfn EXCEPT ![t] = f]
    /\ tret' = [tret EXCEPT ![t] = <<CallFn(f, tshared)>>]
    /\ tpc' = [tpc EXCEPT ![t] = "done"]
    /\ UNCHANGED <<tshared, tshared0, tit, tstr, tover>>
    /\ UNCHANGED <<cvars, hvars, svars, pvars>>

ThreadLabel(t) == \E f \in LabelGetters : ThreadCall(t, f)

ThreadCodec(t) == \E f \in CodecFunctions : ThreadCall(t, f)

ThreadPred(t) == \E i \in 1..Len(PredNames) : ThreadCall(t, PredNames[i])

\* get_magic, up to the loop: the String is created empty and the for
\* loop takes a copy of the e_ident array to iterate over.
MagicBegin(t) ==
    /\ tpc[t] = "idle"
    /\ tfn' = [tfn EXCEPT ![t] = "get_magic"]
    /\ tit' = [tit EXCEPT ![t] = tshared.self.hdr.e_ident]
    /\ tstr' = [tstr EXCEPT ![MagicBuf(t)] = << >>]
    /\ tover' = [tover EXCEPT ![t] = FALSE]
    /\ tpc' = [tpc EXCEPT ![t] = "loop"]
    /\ UNCHANGED <<tshared, tshared0, tret>>
    /\ UNCHANGED <<cvars, hvars, svars, pvars>>

\* One iteration: s.push_str(format!("{:02x} ", i).as_str()).
MagicPush(t) ==
    /\ tpc[t] = "loop"
    /\ tit[t] # << >>
    /\ tstr' = [tstr EXCEPT ![MagicBuf(t)] = @ \o FormatHexByte(Head(tit[t]))]
    /\ tit' = [tit EXCEPT ![t] = Tail(@)]
    /\ tover' = [u \in Threads |-> tover[u] \/ (u # t /\ tpc[u] = "loop")]
    /\ UNCHANGED <<tshared, tshared0, tpc, tfn, tret>>
    /\ UNCHANGED <<cvars, hvars, svars, pvars>>

\* The loop is over: get_magic returns s, which moves to the caller.
MagicEnd(t) ==
    /\ tpc[t] = "loop"
    /\ tit[t] = << >>
    /\ tret' = [tret EXCEPT ![t] = <<tstr[MagicBuf(t)]>>]
    /\ tstr' = [tstr EXCEPT ![MagicBuf(t)] = << >>]
    /\ tpc' = [tpc EXCEPT ![t] = "done"]
    /\ UNCHANGED <<tshared, tshared0, tfn, tit, tover>>
    /\ UNCHANGED <<cvars, hvars, svars, pvars>>

\* The caller is done with the value returned and drops it.
ThreadReturn(t) ==
    /\ tpc[t] = "done"
    /\ tpc' = [tpc EXCEPT ![t] = "idle"]
    /\ tfn' = [tfn EXCEPT ![t] = ""]
    /\ tret' = [tret EXCEPT ![t] = << >>]
    /\ tover' = [tover EXCEPT ![t] = FALSE]
    /\ UNCHANGED <<tshared, tshared0, tit, tstr>>
    /\ UNCHANGED <<cvars, hvars, svars, pvars>>

NextThreads ==
    \E t \in Threads :
        \/ ThreadLabel(t)
        \/ ThreadCodec(t)
        \/ ThreadPred(t)
        \/ MagicBegin(t)
        \/ MagicPush(t)
        \/ MagicEnd(t)
        \/ ThreadReturn(t)

SpecThreads == InitThreads /\ [][NextThreads]_vars

-----------------------------------------------------------------------------
(* Properties of the bitfield codec.                                       *)

\* Whether the info value of this run was packed from carg (and not read).
Packed == carg # << >> /\ cpc # "args"

\* Whether the two unpack functions have returned.
Unpacked == cpc \in {"fields", "done"} /\ cfld # << >>

\* C1: symbol-info round trip.  For every binding b in 0..15 and every type
\* t in 0..15, elf32_st_bind(elf32_st_info(b, t)) = b and
\* elf32_st_type(elf32_st_info(b, t)) = t.
C1_StRoundTrip ==
    (Packed /\ Unpacked /\ carg[1] \in 0..15 /\ carg[2] \in 0..15)
        => (cfld[1] = carg[1] /\ cfld[2] = carg[2])

C1_Witness ==
    /\ Packed /\ Unpacked
    /\ carg = <<13, 15>>
    /\ cinfo = <<223>>
    /\ cfld = <<13, 15>>

\* C2: relocation-info round trip.  For every symbol index i below 2^24 (its
\* high limb below 2^8) and every type t in 0..255,
\* elf32_r_sym(elf32_r_info(i, t)) = i and elf32_r_type(elf32_r_info(i, t)) = t.
C2_RRoundTrip ==
    (Packed /\ Unpacked /\ carg[1].hi < 256 /\ carg[2] \in U8)
        => (cfld[1] = carg[1] /\ cfld[2] = carg[2])

\* i = 0xffffff, t = 0xff: info = 0xffffffff.
C2_Witness ==
    /\ Packed /\ Unpacked
    /\ carg = <<U32(255, 65535), 255>>
    /\ cinfo = <<U32(65535, 65535)>>
    /\ cfld = <<U32(255, 65535), 255>>

\* C3: symbol-info packing is total and truncates silently.  For every u8
\* bind and typ, values above 15 included, elf32_st_info(bind, typ) returns,
\* without aborting, the byte (bind mod 16) * 16 + (typ mod 16).
C3_StInfoTruncates ==
    /\ ~cpanic
    /\ Packed => cinfo = <<((carg[1] % 16) * 16) + (carg[2] % 16)>>

\* bind = 0x93 and typ = 0xa7 pack to 0x37.
C3_Witness ==
    /\ Packed
    /\ carg = <<147, 167>>
    /\ cinfo = <<55>>

\* C4: relocation-info packing is total and truncates silently.  For every
\* u32 sym, values of 2^24 and above included, and every u8 typ,
\* elf32_r_info(sym, typ) returns, without aborting, the word
\* (sym mod 2^24) * 256 + typ, so that elf32_r_sym of the result is
\* sym mod 2^24 and elf32_r_type of the result is typ.
\* With sym = hi * 2^16 + lo:  sym mod 2^24 = (hi mod 2^8) * 2^16 + lo, and
\* (sym mod 2^24) * 2^8 + typ has the high limb (hi mod 2^8) * 2^8 + lo div 2^8
\* and the low limb (lo mod 2^8) * 2^8 + typ.
C4_RInfoTruncates ==
    /\ ~cpanic
    /\ Packed =>
          cinfo = <<U32(((carg[1].hi % 256) * 256) + (carg[1].lo \div 256),
                        ((carg[1].lo % 256) * 256) + carg[2])>>
    /\ (Packed /\ Unpacked) =>
          /\ cfld[1] = U32(carg[1].hi % 256, carg[1].lo)
          /\ cfld[2] = carg[2]

\* sym = 0xa5a51234 (above 2^24) and typ = 0x81: info = 0xa5123481 and the
\* unpacked symbol index is 0x00a51234.
C4_Witness ==
    /\ Packed /\ Unpacked
    /\ carg = <<U32(42405, 4660), 129>>
    /\ cinfo = <<U32(42258, 13441)>>
    /\ cfld = <<U32(165, 4660), 129>>

\* C5: symbol-info unpacking.  For every byte x, elf32_st_bind(x) is
\* x div 16, elf32_st_type(x) is x mod 16, and both are in 0..15.
C5_StUnpack ==
    Unpacked =>
        /\ cfld[1] = cinfo[1] \div 16
        /\ cfld[2] = cinfo[1] % 16
        /\ cfld[1] \in 0..15
        /\ cfld[2] \in 0..15

\* The byte 0xb6, read from a record, unpacks to (11, 6).
C5_Witness ==
    /\ Unpacked
    /\ carg = << >>
    /\ cinfo = <<182>>
    /\ cfld = <<11, 6>>

\* C6: relocation-info unpacking.  For every u32 w, elf32_r_sym(w) is
\* w div 256, which is below 2^24, and elf32_r_type(w) is w mod 256.
\* With w = hi * 2^16 + lo:  w div 2^8 has the high limb hi div 2^8 and the
\* low limb (hi mod 2^8) * 2^8 + lo div 2^8.
C6_RUnpack ==
    Unpacked =>
        /\ cfld[1] = U32(cinfo[1].hi \div 256,
                         ((cinfo[1].hi % 256) * 256) + (cinfo[1].lo \div 256))
        /\ cfld[1].hi < 256
        /\ cfld[2] = cinfo[1].lo % 256

\* The word 0xabcd5a5a, read from a record, unpacks to (0x00abcd5a, 0x5a).
C6_Witness ==
    /\ Unpacked
    /\ carg = << >>
    /\ cinfo = <<U32(43981, 23130)>>
    /\ cfld = <<U32(171, 52570), 90>>

\* Whether the unpacked fields have been packed again.
Repacked == cpc = "done" /\ cfld # << >> /\ cre # << >>

\* C27: symbol-info re-pack identity.  For every byte x in 0..255,
\* elf32_st_info(elf32_st_bind(x), elf32_st_type(x)) = x: unpacking loses no
\* information, and the codec is a bijection between bytes and (4-bit
\* binding, 4-bit type) pairs.
C27_StRepack ==
    Repacked =>
        /\ cre = cinfo
        /\ cfld[1] \in 0..15
        /\ cfld[2] \in 0..15
        /\ cinfo[1] = (cfld[1] * 16) + cfld[2]

\* The byte 0xff, read from a record, unpacks to (15, 15) and packs to 0xff.
C27_Witness ==
    /\ Repacked
    /\ carg = << >>
    /\ cinfo = <<255>>
    /\ cfld = <<15, 15>>
    /\ cre = <<255>>

\* C28: relocation-info re-pack identity.  For every 32-bit word w,
\* elf32_r_info(elf32_r_sym(w), elf32_r_type(w)) = w: unpacking loses no
\* information, and the codec is a bijection between words and (24-bit
\* symbol index, 8-bit type) pairs.
C28_RRepack ==
    Repacked =>
        /\ cre = cinfo
        /\ cfld[1].hi < 256
        /\ cfld[2] \in 0..255
        /\ cinfo[1] = [hi |-> (cfld[1].hi * 256) + (cfld[1].lo \div 256),
                       lo |-> ((cfld[1].lo % 256) * 256) + cfld[2]]

\* The word 0xa5a5abcd, read from a record, unpacks to (0x00a5a5ab, 0xcd)
\* and packs to 0xa5a5abcd.
C28_Witness ==
    /\ Repacked
    /\ carg = << >>
    /\ cinfo = <<[hi |-> 42405, lo |-> 43981]>>
    /\ cfld = <<[hi |-> 165, lo |-> 42411], 205>>
    /\ cre = <<[hi |-> 42405, lo |-> 43981]>>

-----------------------------------------------------------------------------
(* Properties of the header decode.                                        *)

\* C8: magic validation.  A buffer whose first four bytes are not
\* 7F 45 4C 46 is rejected with BadMagic, and no header field is reported
\* before that rejection.  Stated on the images of the embedded size.
C8_BadMagicRejected ==
    (pc = "done" /\ BufLen(buf) = BYTES_LEN /\ SubSeq(buf.data, 1, 4) # ELF_MAGIC)
        => (result = "BadMagic" /\ out = << >>)

\* The value of the two-byte (four-byte) scalar at byte offset `off` of the
\* file, in the byte order the data-encoding byte `enc` declares.
FileU16(b, off, enc) ==
    IF enc = ELFDATA2LSB
    THEN ByteAt(b, off + 1) + (256 * ByteAt(b, off + 2))
    ELSE (256 * ByteAt(b, off + 1)) + ByteAt(b, off + 2)

FileU32(b, off, enc) ==
    IF enc = ELFDATA2LSB
    THEN U32(FileU16(b, off + 2, enc), FileU16(b, off, enc))
    ELSE U32(FileU16(b, off, enc), FileU16(b, off + 2, enc))

\* C9: endianness.  Every multi-byte header field is decoded in the byte
\* order declared by e_ident[EI_DATA] (least-significant byte first for
\* ELFDATA2LSB, most-significant byte first for ELFDATA2MSB), whatever the
\* host's byte order.  Stated on the images of the embedded size that begin
\* with the ELF magic; the offsets are those of the ELF32 header.
C9_FileByteOrder ==
    (/\ pc = "done"
     /\ result = "exit0"
     /\ BufLen(buf) = BYTES_LEN
     /\ SubSeq(buf.data, 1, 4) = ELF_MAGIC
     /\ ByteAt(buf, EI_DATA + 1) \in {ELFDATA2LSB, ELFDATA2MSB})
        => LET enc == ByteAt(buf, EI_DATA + 1)
               h == parser[1].hdr
           IN  /\ h.e_type = FileU16(buf, 16, enc)
               /\ h.e_machine = FileU16(buf, 18, enc)
               /\ h.e_version = FileU32(buf, 20, enc)
               /\ h.e_entry = FileU32(buf, 24, enc)
               /\ h.e_phoff = FileU32(buf, 28, enc)
               /\ h.e_shoff = FileU32(buf, 32, enc)
               /\ h.e_flags = FileU32(buf, 36, enc)
               /\ h.e_ehsize = FileU16(buf, 40, enc)
               /\ h.e_phentsize = FileU16(buf, 42, enc)
               /\ h.e_phnum = FileU16(buf, 44, enc)
               /\ h.e_shentsize = FileU16(buf, 46, enc)
               /\ h.e_shnum = FileU16(buf, 48, enc)
               /\ h.e_shstrndx = FileU16(buf, 50, enc)

-----------------------------------------------------------------------------
(* Properties of the section predicates.                                   *)

\* What the predicate named p returned in the results r.
Returned(r, p) == r[CHOOSE i \in 1..Len(PredNames) : PredNames[i] = p]

\* Whether no predicate returned true in the results r.
NoneOfTheAbove(r) == \A i \in 1..Len(PredNames) : ~r[i]

\* C10: classification example.  A section with sh_type SHT_PROGBITS and
\* sh_flags exactly SHF_ALLOC | SHF_EXECINSTR classifies as .text when its
\* name is ".text" (is_text_section is true), and when the same section is
\* named ".foo" every is_*_section predicate returns false.
C10_TextExample ==
    (/\ spc = "done"
     /\ sec.sh_type = SHT_PROGBITS
     /\ sec.sh_flags = OrU32(SHF_ALLOC, SHF_EXECINSTR))
        => /\ sname = ".text" => Returned(cls[1], "is_text_section")
           /\ sname = ".foo" => NoneOfTheAbove(cls[1])

\* The section was classified as ".text", renamed ".foo" and classified
\* again.
C10_Witness ==
    /\ spc = "done"
    /\ sec.sh_type = SHT_PROGBITS
    /\ sec.sh_flags = u32(6)
    /\ sprev # << >>
    /\ sprev[1].name = ".text"
    /\ Returned(sprev[1].cls, "is_text_section")
    /\ sname = ".foo"
    /\ NoneOfTheAbove(cls[1])

\* C11: is_text_section(section, name) returns true if and only if sh_type
\* is SHT_PROGBITS, the SHF_ALLOC bit (value 2) and the SHF_EXECINSTR bit
\* (value 4) are both set in sh_flags, whatever the other flag bits are, and
\* name is exactly ".text".
C11_TextIff ==
    spc = "done" =>
        (Returned(cls[1], "is_text_section")
            <=> (/\ sec.sh_type = [hi |-> 0, lo |-> 1]
                 /\ (sec.sh_flags.lo \div 2) % 2 = 1
                 /\ (sec.sh_flags.lo \div 4) % 2 = 1
                 /\ sname = ".text"))

\* A ".text" section with the processor-specific flag bits 0xf0000000 set on
\* top of ALLOC | EXECINSTR is still .text.
C11_Witness ==
    /\ spc = "done"
    /\ sec.sh_type = SHT_PROGBITS
    /\ sec.sh_flags = [hi |-> 61440, lo |-> 6]
    /\ sname = ".text"
    /\ Returned(cls[1], "is_text_section")

\* The predicates that returned true in the results r.
TruePreds(r) == {i \in 1..Len(PredNames) : r[i]}

\* C12: exactly one classification.  For every section header and every
\* name at most one of the twenty is_*_section predicates returns true, so
\* the first true predicate is the same in whatever order they are tried.
C12_AtMostOne ==
    spc = "done" =>
        /\ Cardinality(TruePreds(cls[1])) <= 1
        /\ \A i, j \in TruePreds(cls[1]) : i = j

\* A PROGBITS section with WRITE | ALLOC | EXECINSTR has the type and flags
\* that .data, .data1, .fini, .got, .hash, .init, .plt, .rodata, .rodata1
\* and .text ask for; named ".data" it is .data and nothing else.
C12_Witness ==
    /\ spc = "done"
    /\ sec.sh_type = SHT_PROGBITS
    /\ sec.sh_flags = u32(7)
    /\ sname = ".data"
    /\ TruePreds(cls[1]) = {CHOOSE i \in 1..Len(PredNames) : PredNames[i] = "is_data_section"}

\* The conventional name of each predicate: is_X_section is about ".X".
ConventionalName(p) ==
    CASE p = "is_bss_section" -> ".bss"
      [] p = "is_data_section" -> ".data"
      [] p = "is_data1_section" -> ".data1"
      [] p = "is_debug_section" -> ".debug"
      [] p = "is_dynamic_section" -> ".dynamic"
      [] p = "is_dynstr_section" -> ".dynstr"
      [] p = "is_dynsym_section" -> ".dynsym"
      [] p = "is_fini_section" -> ".fini"
      [] p = "is_got_section" -> ".got"
      [] p = "is_hash_section" -> ".hash"
      [] p = "is_init_section" -> ".init"
      [] p = "is_line_section" -> ".line"
      [] p = "is_note_section" -> ".note"
      [] p = "is_plt_section" -> ".plt"
      [] p = "is_rodata_section" -> ".rodata"
      [] p = "is_rodata1_section" -> ".rodata1"
      [] p = "is_shstrtab_section" -> ".shstrtab"
      [] p = "is_strtab_section" -> ".strtab"
      [] p = "is_symtab_section" -> ".symtab"
      [] p = "is_text_section" -> ".text"

\* The section type each predicate asks for, as a number: 1 PROGBITS,
\* 2 SYMTAB, 3 STRTAB, 6 DYNAMIC, 7 NOTE, 8 NOBITS, 11 DYNSYM.  (The type
\* is_hash_section asks for is PROGBITS.)
RequiredType(p) ==
    CASE p = "is_bss_section" -> 8
      [] p = "is_dynamic_section" -> 6
      [] p = "is_dynstr_section" -> 3
      [] p = "is_dynsym_section" -> 11
      [] p = "is_note_section" -> 7
      [] p = "is_shstrtab_section" -> 3
      [] p = "is_strtab_section" -> 3
      [] p = "is_symtab_section" -> 2
      [] OTHER -> 1

\* C13: name and structure are both required.  Each is_X_section returns
\* false whenever the name differs from X's conventional name, whatever
\* sh_type and sh_flags are, and returns false whenever sh_type differs from
\* the section type X requires, whatever the name is.
C13_NameAndType ==
    spc = "done" =>
        \A i \in 1..Len(PredNames) :
            /\ sname # ConventionalName(PredNames[i]) => ~cls[1][i]
            /\ sec.sh_type # [hi |-> 0, lo |-> RequiredType(PredNames[i])] => ~cls[1][i]

\* A PROGBITS section with ALLOC | EXECINSTR: named ".symtab" it has the
\* right name and the wrong type for is_symtab_section; renamed ".foo" it
\* has the right type and the wrong name for is_text_section.  Nothing
\* returns true either time.
C13_Witness ==
    /\ spc = "done"
    /\ sec.sh_type = SHT_PROGBITS
    /\ sec.sh_flags = u32(6)
    /\ sprev # << >>
    /\ sprev[1].name = ".symtab"
    /\ NoneOfTheAbove(sprev[1].cls)
    /\ sname = ".foo"
    /\ NoneOfTheAbove(cls[1])

\* Whether bit b (a power of two below 2^16) is set in the flag word f.
FlagSet(f, b) == (f.lo \div b) % 2 = 1

\* C23: a conventional .bss section is recognised.  is_bss_section returns
\* true for a section named ".bss" with sh_type SHT_NOBITS (8) whose flags
\* mark it as contributing to the program's memory image: SHF_ALLOC (2) set,
\* with SHF_WRITE (1).
C23_BssRecognised ==
    (/\ spc = "done"
     /\ sname = ".bss"
     /\ sec.sh_type = [hi |-> 0, lo |-> 8]
     /\ FlagSet(sec.sh_flags, 2)
     /\ FlagSet(sec.sh_flags, 1))
        => Returned(cls[1], "is_bss_section")

\* C24: a symbol hash table section is recognised.  is_hash_section returns
\* true for a section named ".hash" whose sh_type is SHT_HASH (5) and whose
\* sh_flags include SHF_ALLOC (2).
C24_HashRecognised ==
    (/\ spc = "done"
     /\ sname = ".hash"
     /\ sec.sh_type = [hi |-> 0, lo |-> 5]
     /\ FlagSet(sec.sh_flags, 2))
        => Returned(cls[1], "is_hash_section")

\* C25: is_dynamic_section returns true only for sections whose sh_flags
\* include the SHF_ALLOC bit (2): a SHT_DYNAMIC section named ".dynamic"
\* without SHF_ALLOC is not classified as .dynamic.
C25_DynamicNeedsAlloc ==
    (spc = "done" /\ Returned(cls[1], "is_dynamic_section"))
        => FlagSet(sec.sh_flags, 2)

\* a <= b for two u32 values.
LeU32(a, b) == a.hi < b.hi \/ (a.hi = b.hi /\ a.lo <= b.lo)

\* lo <= c <= hi for u32 values.
WithinU32(c, lo, hi) == LeU32(lo, c) /\ LeU32(c, hi)

\* Whether the section-header module is the part running.
SectRunning == spc \in {"args", "done"}

\* C26: the reserved section-index range is well formed.  SHN_LORESERVE <=
\* SHN_HIRESERVE, and SHN_LOPROC, SHN_HIPROC, SHN_ABS and SHN_COMMON all lie
\* between SHN_LORESERVE and SHN_HIRESERVE inclusive.  Stated on the states
\* of the section-predicate harness.
C26_ReservedIndexRange ==
    SectRunning =>
        /\ LeU32(SHN_LORESERVE, SHN_HIRESERVE)
        /\ \A c \in {SHN_LOPROC, SHN_HIPROC, SHN_ABS, SHN_COMMON} :
              WithinU32(c, SHN_LORESERVE, SHN_HIRESERVE)

\* C29: processor-specific ranges are well formed for every enumerated
\* field.  For each of ET, SHT, PT, DT, STB and STT, LOPROC <= HIPROC and no
\* other named code of the field lies inside LOPROC..HIPROC; and
\* SHT_LOUSER..SHT_HIUSER does not overlap SHT_LOPROC..SHT_HIPROC.  Stated
\* on the states of the section-predicate harness.
C29_ProcRanges ==
    /\ SectRunning
    /\ ET_LOPROC <= ET_HIPROC
    /\ \A c \in {ET_NONE, ET_REL, ET_EXEC, ET_DYN, ET_CORE} :
          ~(ET_LOPROC <= c /\ c <= ET_HIPROC)
    /\ LeU32(SHT_LOPROC, SHT_HIPROC)
    /\ \A c \in {SHT_NULL, SHT_PROGBITS, SHT_SYMTAB, SHT_DYNSYM, SHT_STRTAB,
                  SHT_RELA, SHT_HASH, SHT_DYNAMIC, SHT_NOTE, SHT_NOBITS, SHT_REL,
                  SHT_SHLIB, SHT_LOUSER, SHT_HIUSER} :
          ~WithinU32(c, SHT_LOPROC, SHT_HIPROC)
    /\ LeU32(SHT_LOUSER, SHT_HIUSER)
    /\ ~LeU32(SHT_LOUSER, SHT_HIPROC) \/ ~LeU32(SHT_LOPROC, SHT_HIUSER)
    /\ LeU32(PT_LOPROC, PT_HIPROC)
    /\ \A c \in {PT_NULL, PT_LOAD, PT_DYNAMIC, PT_INTERP, PT_NOTE, PT_SHLIB, PT_PHDR} :
          ~WithinU32(c, PT_LOPROC, PT_HIPROC)
    /\ LeU32(DT_LOPROC, DT_HIPROC)
    /\ \A c \in {DT_NULL, DT_NEEDED, DT_PLTRELSZ, DT_PLTGOT, DT_HASH, DT_STRTAB,
                  DT_SYMTAB, DT_RELA, DT_RELASZ, DT_RELAENT, DT_STRSZ, DT_SYMENT,
                  DT_INIT, DT_FINI, DT_SONAME, DT_RPATH, DT_SYMBOLIC, DT_REL,
                  DT_RELSZ, DT_RELENT, DT_PLTREL, DT_DEBUG, DT_TEXTREL, DT_JMPREL} :
          ~WithinU32(c, DT_LOPROC, DT_HIPROC)
    /\ STB_LOPROC <= STB_HIPROC
    /\ \A c \in {STB_LOCAL, STB_GLOBAL, STB_WEAK} :
          ~(STB_LOPROC <= c /\ c <= STB_HIPROC)
    /\ STT_LOPROC <= STT_HIPROC
    /\ \A c \in {STT_NOTYPE, STT_OBJECT, STT_FUNC, STT_SECTION, STT_FILE} :
          ~(STT_LOPROC <= c /\ c <= STT_HIPROC)

\* A section whose type is the upper end of the processor-specific range,
\* named ".text" with ALLOC | EXECINSTR: no predicate takes its type for
\* one of the named types.
C29_Witness ==
    /\ spc = "done"
    /\ sec.sh_type = [hi |-> 32767, lo |-> 65535]
    /\ sec.sh_type = SHT_HIPROC
    /\ WithinU32(sec.sh_type, SHT_LOPROC, SHT_HIPROC)
    /\ sec.sh_flags = u32(6)
    /\ sname = ".text"
    /\ NoneOfTheAbove(cls[1])

-----------------------------------------------------------------------------
(* Properties of the symbolic interpretation (ElfParser).                  *)

\* Whether the last call was of method m and returned.
Called(m) == pret # << >> /\ pret[1].fn = m

\* C15: object-file-type reserved range.  For every e_type value in
\* ET_LOPROC..ET_HIPROC inclusive (0xff00..0xffff), get_type returns a
\* processor-specific label and never the unknown fallback "? (Unknown)".
C15_ProcRangeLabel ==
    (Called("get_type") /\ pself[1].hdr.e_type \in 65280..65535)
        => /\ pret[1].val # "? (Unknown)"
           /\ pret[1].val \in {"LOPROC (Processor-specific)",
                                "HIPROC (Processor-specific)"}

\* C16: end-to-end labels.  For a header with identification bytes
\* 7F 45 4C 46 01 01 01 ..., e_type = 2 and e_machine = 3, get_class returns
\* "ELF32", get_data returns "Little endian", get_version returns
\* "1, (current)", get_type returns "EXEC (Executable file)" and get_machine
\* returns "Intel 80386".  (Lines 3 to 7 of print_header print what the five
\* getters return.)
C16_EndToEndLabels ==
    (/\ pc = "done"
     /\ result = "exit0"
     /\ SubSeq(parser[1].hdr.e_ident, 1, 7) = <<127, 69, 76, 70, 1, 1, 1>>
     /\ parser[1].hdr.e_type = 2
     /\ parser[1].hdr.e_machine = 3)
        => /\ out[3].arg = <<"ELF32">>
           /\ out[4].arg = <<"Little endian">>
           /\ out[5].arg = <<"1, (current)">>
           /\ out[6].arg = <<"EXEC (Executable file)">>
           /\ out[7].arg = <<"Intel 80386">>

\* The embedded-size image 7F 45 4C 46 01 01 01 00.. with e_type bytes 02 00
\* and e_machine bytes 03 00, run on a little-endian host.
C16_Witness ==
    /\ pc = "done"
    /\ result = "exit0"
    /\ host = "little"
    /\ BufLen(buf) = BYTES_LEN
    /\ SubSeq(buf.data, 1, 20) = <<127, 69, 76, 70, 1, 1, 1, 0, 0, 0, 0, 0, 0, 0, 0, 0,
                                    2, 0, 3, 0>>
    /\ parser[1].hdr.e_type = 2
    /\ parser[1].hdr.e_machine = 3
    /\ out[3].arg = <<"ELF32">>
    /\ out[7].arg = <<"Intel 80386">>

\* C18: symbolic interpretation is total.  For every value of the class,
\* data-encoding and version bytes and every value of e_type and e_machine,
\* get_class, get_data, get_version, get_type and get_machine each return
\* one of their labels (a recognized label or the fallback) and never fail.
C18_LabelsTotal ==
    /\ ~pfail
    /\ Called("get_class") => pret[1].val \in {"ELF32", "ELF64", "None", "?"}
    /\ Called("get_data") => pret[1].val \in {"Little endian", "Big endian", "None", "?"}
    /\ Called("get_version") =>
          pret[1].val \in {"1, (current)", "0, (invalid)", "?, (unknown)"}
    /\ Called("get_type") =>
          pret[1].val \in {"REL (Relocatable file)", "EXEC (Executable file)",
                           "DYN (Shared object file)", "CORE (Core file)",
                           "LOPROC (Processor-specific)", "HIPROC (Processor-specific)",
                           "NONE (No file type)", "? (Unknown)"}
    /\ Called("get_machine") =>
          pret[1].val \in {"No machine", "AT&T WE 32100", "SUN SPARC", "Intel 80386",
                           "Motorola m68k family", "Motorola m88k family",
                           "Intel 80860", "MIPS R3000 big-endian", "?"}

\* A header with the version byte 0xff: get_class returned "ELF32" and then
\* get_version returned its fallback.
C18_Witness ==
    /\ ~pfail
    /\ pself # << >>
    /\ pself[1].hdr.e_ident[EI_VERSION + 1] = 255
    /\ pseen["get_class"] = <<"ELF32">>
    /\ Called("get_version")
    /\ pret[1].val = "?, (unknown)"

\* C19: unsupported class is an explicit error.  A header whose class byte
\* e_ident[EI_CLASS] is not ELFCLASSNONE (0), ELFCLASS32 (1) or ELFCLASS64
\* (2) is reported to the caller as an UnsupportedClass error result, not
\* accepted with a silent default.  Stated on the images of the embedded
\* size that begin with the ELF magic.
C19_UnsupportedClassRejected ==
    (/\ pc = "done"
     /\ BufLen(buf) = BYTES_LEN
     /\ SubSeq(buf.data, 1, 4) = ELF_MAGIC
     /\ ByteAt(buf, EI_CLASS + 1) \notin {0, 1, 2})
        => (result = "UnsupportedClass" /\ out = << >>)

\* C20: records are read-only after decode.  After ElfParser::new(hdr), any
\* sequence of calls of print_header, get_magic, get_class, get_data,
\* get_version, get_type and get_machine leaves the stored header equal to
\* hdr, and each method returns on every call what it returned on its first
\* call.
C20_ReadOnly ==
    pself # << >> =>
        /\ pself[1].hdr = phdr
        /\ pret # << >> => pseen[pret[1].fn] = <<pret[1].val>>

\* get_type was called twice on the parser of a header with e_type
\* ET_HIPROC and nothing else was called: both calls returned the HIPROC
\* label and the header is the one handed to new.
C20_Witness ==
    /\ pn = 2
    /\ phdr.e_type = ET_HIPROC
    /\ pself[1].hdr = phdr
    /\ Called("get_type")
    /\ pret[1].val = "HIPROC (Processor-specific)"
    /\ \A i \in 1..Len(Methods) :
          pseen[Methods[i]] = IF Methods[i] = "get_type"
                              THEN <<"HIPROC (Processor-specific)">> ELSE << >>

\* The parser p with identification byte i (from 0) set to v, with e_type
\* set to v, with e_machine set to v.
WithIdent(p, i, v) == [hdr |-> [p.hdr EXCEPT !.e_ident[i + 1] = v]]

WithType(p, v) == [hdr |-> [p.hdr EXCEPT !.e_type = v]]

WithMachine(p, v) == [hdr |-> [p.hdr EXCEPT !.e_machine = v]]

\* C30: labels are unambiguous.  Within each of get_class, get_data,
\* get_version, get_type and get_machine, two different recognized codes
\* never map to the same label, and the fallback label is returned for a
\* code if and only if the code is not one of the named constants of the
\* field (class 0, 1, 2; data 0, 1, 2; version 0, 1; type 0, 1, 2, 3, 4,
\* 0xff00, 0xffff; machine 0, 1, 2, 3, 4, 5, 7, 8).  The label just returned
\* for the header's code is compared with the label of every other named
\* code.
C30_LabelsUnambiguous ==
    /\ Called("get_class") =>
          LET c == pself[1].hdr.e_ident[4 + 1] IN
          /\ (pret[1].val = "?") <=> (c \notin {0, 1, 2})
          /\ \A d \in {0, 1, 2} \ {c} :
                get_class(WithIdent(pself[1], 4, d)) # pret[1].val
    /\ Called("get_data") =>
          LET c == pself[1].hdr.e_ident[5 + 1] IN
          /\ (pret[1].val = "?") <=> (c \notin {0, 1, 2})
          /\ \A d \in {0, 1, 2} \ {c} :
                get_data(WithIdent(pself[1], 5, d)) # pret[1].val
    /\ Called("get_version") =>
          LET c == pself[1].hdr.e_ident[6 + 1] IN
          /\ (pret[1].val = "?, (unknown)") <=> (c \notin {0, 1})
          /\ \A d \in {0, 1} \ {c} :
                get_version(WithIdent(pself[1], 6, d)) # pret[1].val
    /\ Called("get_type") =>
          LET c == pself[1].hdr.e_type IN
          /\ (pret[1].val = "? (Unknown)") <=> (c \notin {0, 1, 2, 3, 4, 65280, 65535})
          /\ \A d \in {0, 1, 2, 3, 4, 65280, 65535} \ {c} :
                get_type(WithType(pself[1], d)) # pret[1].val
    /\ Called("get_machine") =>
          LET c == pself[1].hdr.e_machine IN
          /\ (pret[1].val = "?") <=> (c \notin {0, 1, 2, 3, 4, 5, 7, 8})
          /\ \A d \in {0, 1, 2, 3, 4, 5, 7, 8} \ {c} :
                get_machine(WithMachine(pself[1], d)) # pret[1].val

\* get_machine returned the m88k label for code 5, which differs from the
\* m68k label of code 4 and from the fallback of the unnamed code 6.
C30_Witness ==
    /\ Called("get_machine")
    /\ pself[1].hdr.e_machine = 5
    /\ pret[1].val = "Motorola m88k family"
    /\ get_machine(WithMachine(pself[1], 4)) = "Motorola m68k family"
    /\ get_machine(WithMachine(pself[1], 6)) = "?"

-----------------------------------------------------------------------------
(* Properties of the record layouts.                                       *)

\* The byte offset of each field of a layout, in declaration order.
Offsets(layout) == [i \in 1..Len(layout) |-> OffsetOf(layout, layout[i][1])]

\* C22: packed layouts.  Each record's size is the sum of its field widths
\* with no padding (Elf32_Ehdr 52 bytes, Elf32_Phdr 32, Elf32_Shdr 40,
\* Elf32_Sym 16, Elf32_Rel 8, Elf32_Rela 12, Elf32_Dyn 8) and each field
\* begins at the sum of the widths of the fields declared before it (for
\* Elf32_Ehdr: e_ident at 0, e_type at 16, e_machine at 18, e_version at 20,
\* e_entry at 24, e_phoff at 28, e_shoff at 32, e_flags at 36, e_ehsize at
\* 40, e_phentsize at 42, e_phnum at 44, e_shentsize at 46, e_shnum at 48,
\* e_shstrndx at 50).  The header main decodes is the 52 bytes read at
\* those offsets.
C22_PackedLayouts ==
    /\ SizeOf(Elf32_Ehdr_layout) = 52
    /\ SizeOf(Elf32_Phdr_layout) = 32
    /\ SizeOf(Elf32_Shdr_layout) = 40
    /\ SizeOf(Elf32_Sym_layout) = 16
    /\ SizeOf(Elf32_Rel_layout) = 8
    /\ SizeOf(Elf32_Rela_layout) = 12
    /\ SizeOf(Elf32_Dyn_layout) = 8
    /\ Offsets(Elf32_Ehdr_layout) = <<0, 16, 18, 20, 24, 28, 32, 36, 40, 42, 44, 46, 48, 50>>
    /\ Offsets(Elf32_Phdr_layout) = <<0, 4, 8, 12, 16, 20, 24, 28>>
    /\ Offsets(Elf32_Shdr_layout) = <<0, 4, 8, 12, 16, 20, 24, 28, 32, 36>>
    /\ Offsets(Elf32_Sym_layout) = <<0, 4, 8, 12, 13, 14>>
    /\ Offsets(Elf32_Rel_layout) = <<0, 4>>
    /\ Offsets(Elf32_Rela_layout) = <<0, 4, 8>>
    /\ Offsets(Elf32_Dyn_layout) = <<0, 4>>
    /\ (pc = "done" /\ result = "exit0" /\ BufLen(buf) >= 52) =>
          /\ nread = 52
          /\ parser[1].hdr.e_type = LoadU16(DerefBytes(buf, 52), 16, host)
          /\ parser[1].hdr.e_machine = LoadU16(DerefBytes(buf, 52), 18, host)
          /\ parser[1].hdr.e_version = LoadU32(DerefBytes(buf, 52), 20, host)
          /\ parser[1].hdr.e_entry = LoadU32(DerefBytes(buf, 52), 24, host)
          /\ parser[1].hdr.e_shstrndx = LoadU16(DerefBytes(buf, 52), 50, host)

\* The image with e_entry 0x08048054 at bytes 24..27 and e_shstrndx 4 at
\* bytes 50..51, decoded on a little-endian host.
C22_Witness ==
    /\ pc = "done"
    /\ result = "exit0"
    /\ host = "little"
    /\ BufLen(buf) = BYTES_LEN
    /\ SubSeq(buf.data, 25, 28) = <<84, 128, 4, 8>>
    /\ SubSeq(buf.data, 51, 52) = <<4, 0>>
    /\ nread = 52
    /\ parser[1].hdr.e_entry = [hi |-> 2052, lo |-> 32852]
    /\ parser[1].hdr.e_shstrndx = 4

-----------------------------------------------------------------------------
(* Properties of concurrent calls.                                         *)

\* What the call of f returns when it runs alone on the shared values sh.
Alone(f, sh) == IF f = "get_magic" THEN get_magic(sh.self) ELSE CallFn(f, sh)

\* C21: concurrent use is safe.  While several threads call the label
\* getters, get_magic, the bitfield codec and the section predicates over
\* the same parser, section and records, in any interleaving, the shared
\* values are never modified, and every call that has returned has returned
\* what the same call returns when it runs alone on them.
C21_ConcurrentSafe ==
    /\ tshared = tshared0
    /\ \A t \in DOMAIN tpc :
          tpc[t] = "done" => tret[t] = <<Alone(tfn[t], tshared0)>>

\* Two threads were inside get_magic at the same time, each pushed to its
\* String while the other was in its loop, and both returned the sixteen
\* bytes of the first parser's identification, while the shared class byte
\* still reads 1.
C21_Witness ==
    /\ tshared.self.hdr.e_ident[4 + 1] = 1
    /\ \A t \in 1..2 :
          /\ tpc[t] = "done"
          /\ tfn[t] = "get_magic"
          /\ tover[t]
          /\ tret[t] =
                <<<<"7", "f", " ", "4", "5", " ", "4", "c", " ", "4", "6", " ",
                  "0", "1", " ", "0", "1", " ", "0", "1", " ", "0", "0", " ",
                  "0", "0", " ", "0", "0", " ", "0", "0", " ", "0", "0", " ",
                  "0", "0", " ", "0", "0", " ", "0", "0", " ", "0", "0", " ">>>>

=============================================================================
